---------------------------- MODULE Spec2Model ----------------------------
(***************************************************************************)
(* Model of src/api/index.py: a two-layer dense digit classifier behind a  *)
(* request handler, with single-sample prediction and single-sample        *)
(* online training on four process-wide parameter arrays W1, b1, W2, b2.   *)
(*                                                                         *)
(* Numbers.  numpy computes in IEEE-754 doubles: finite precision, a       *)
(* finite range, +inf/-inf on overflow and nan for inf-inf, inf/inf and    *)
(* 0*inf.  The model keeps all of that at a reduced size: a float is an    *)
(* integer r standing for r/Scale, finite while |r| <= MaxFinite, with     *)
(* three further integers for +inf, -inf and nan.  Every operation rounds  *)
(* to the nearest representable value, as the hardware does.  What a       *)
(* double does at large magnitudes happens here at small ones: np.exp      *)
(* overflows to inf above about 709 and underflows to 0 below about -745   *)
(* in the source, and above about 5.7 and below about -5.3 in the model.   *)
(*                                                                         *)
(* Arrays.  A 2-D array is a sequence of rows.  An operation that numpy    *)
(* rejects (shapes not aligned, operands that do not broadcast, an index   *)
(* out of bounds) yields Err, and every operation passes Err on: this is   *)
(* the exception travelling up to the handler's except clause.             *)
(*                                                                         *)
(* Scoping.  handler declares `global W1, b1, W2, b2` at line 111, inside  *)
(* the train branch.  A global statement holds for the whole function      *)
(* body, so the names read at line 93 are the module globals too; the      *)
(* model follows that.  (CPython 3 compilers reject the file as written,   *)
(* "name 'W1' is used prior to global declaration"; the model describes    *)
(* the function with the declaration taken as covering the body.)          *)
(***************************************************************************)
EXTENDS Integers, Sequences, FiniteSets, TLC

VARIABLES
    modelFile,  \* what digit_recognizer_model.json holds when the module is imported
    phase,      \* "importing", "serving" or "crashed" (the import raised)
    stderr,     \* the startup messages printed so far
    W1, b1, W2, b2,   \* the module globals; Unbound until assigned
    event,      \* the event of the request in flight, or of the last one served
    via,        \* how that request reaches handler: "direct" or "http"
    inFlight,   \* TRUE from the request's arrival until it has been served
    response,   \* what handler returned for it
    wire,       \* what the client of that request received
    pre,        \* the four globals as they were when handler was entered
    trains,     \* number of train requests that replaced the globals so far
    threads     \* per thread of a concurrent host: its position in handler and its locals

vars ==
    <<modelFile, phase, stderr, W1, b1, W2, b2, event, via, inFlight, response, wire,
      pre, trains, threads>>

\* ------------------------------------------------------------------ bounds
\* Fixed-point resolution: the float r stands for r / Scale.
Scale == 100
\* Largest finite magnitude (in units of 1/Scale); beyond it a result is +-inf.
MaxFinite == 30000
\* Length of an image in the model (784 in the source, line 91).
ImageSize == 3
\* Number of train requests one behaviour may serve.
MaxTrains == 2

\* ------------------------------------------------------- program constants
\* Number of classes: one_hot builds a (10, 1) column.
NumClasses == 10
\* Divisor of the pixel rescaling, `/ 255.0`.
PixelMax == 255

\* ------------------------------------------------------------------ floats
PInf == MaxFinite + 1
NInf == -(MaxFinite + 1)
NaN  == MaxFinite + 2

IsNaN(a) == a = NaN
IsInf(a) == a = PInf \/ a = NInf
IsFinite(a) == ~IsNaN(a) /\ ~IsInf(a)
Sign(a) == IF a > 0 THEN 1 ELSE IF a < 0 THEN -1 ELSE 0

\* Overflow of a rounded result to +-inf.
Clamp(v) == IF v > MaxFinite THEN PInf ELSE IF v < -MaxFinite THEN NInf ELSE v
\* n / d rounded to nearest, d > 0.
RoundDiv(n, d) == (2 * n + d) \div (2 * d)
\* A Python number k as a float.
Lit(k) == Clamp(k * Scale)

FNeg(a) == IF IsNaN(a) THEN NaN ELSE -a

FAdd(a, b) ==
    IF IsNaN(a) \/ IsNaN(b) THEN NaN
    ELSE IF IsInf(a) /\ IsInf(b) THEN (IF a = b THEN a ELSE NaN)
    ELSE IF IsInf(a) THEN a
    ELSE IF IsInf(b) THEN b
    ELSE Clamp(a + b)

FSub(a, b) == FAdd(a, FNeg(b))

FMul(a, b) ==
    IF IsNaN(a) \/ IsNaN(b) THEN NaN
    ELSE IF IsInf(a) \/ IsInf(b)
         THEN (IF a = 0 \/ b = 0 THEN NaN
               ELSE IF Sign(a) * Sign(b) > 0 THEN PInf ELSE NInf)
    ELSE Clamp(RoundDiv(a * b, Scale))

FDiv(a, b) ==
    IF IsNaN(a) \/ IsNaN(b) THEN NaN
    ELSE IF IsInf(a) /\ IsInf(b) THEN NaN
    ELSE IF IsInf(b) THEN 0
    ELSE IF b = 0 THEN (IF a = 0 THEN NaN ELSE IF a > 0 THEN PInf ELSE NInf)
    ELSE IF IsInf(a) THEN (IF Sign(a) * Sign(b) > 0 THEN PInf ELSE NInf)
    ELSE IF b > 0 THEN Clamp(RoundDiv(a * Scale, b))
    ELSE Clamp(RoundDiv((-a) * Scale, -b))

\* a > b on floats: every comparison with nan is false.
FGt(a, b) == ~IsNaN(a) /\ ~IsNaN(b) /\ a > b
FGe(a, b) == ~IsNaN(a) /\ ~IsNaN(b) /\ a >= b

\* np.maximum of two scalars: nan if either is nan.
FMaximum(a, b) == IF IsNaN(a) \/ IsNaN(b) THEN NaN ELSE IF a >= b THEN a ELSE b

\* e as a float, and e^(r/Scale) for 0 <= r < Scale by its Taylor series.
ERep == RoundDiv(2718 * Scale, 1000)
ExpFrac(r) ==
    LET t2 == RoundDiv(r * r, 2 * Scale)
        t3 == RoundDiv(t2 * r, 3 * Scale)
        t4 == RoundDiv(t3 * r, 4 * Scale)
        t5 == RoundDiv(t4 * r, 5 * Scale)
    IN  Scale + r + t2 + t3 + t4 + t5

RECURSIVE TimesE(_, _)
\* acc * e^q for an integer q >= 0, overflowing to +inf.
TimesE(acc, q) ==
    IF acc = PInf \/ q = 0 THEN acc ELSE TimesE(FMul(acc, ERep), q - 1)

\* np.exp of one scalar: exp(x) for x >= 0, 1 / exp(-x) below 0 (which
\* underflows to 0 for a large enough -x).
FExp(a) ==
    IF IsNaN(a) THEN NaN
    ELSE IF a = PInf THEN PInf
    ELSE IF a = NInf THEN 0
    ELSE IF a >= 0 THEN TimesE(ExpFrac(a % Scale), a \div Scale)
    ELSE FDiv(Scale, TimesE(ExpFrac((-a) % Scale), (-a) \div Scale))


\* ------------------------------------------------------------------ arrays
\* The outcome of an array operation that raises.
Err == << >>
IsErr(M) == M = << >>
Rows(M) == Len(M)
Cols(M) == Len(M[1])
Shape(M) == IF IsErr(M) THEN <<0, 0>> ELSE <<Rows(M), Cols(M)>>

\* Evaluation helpers: the value of F at v, with v computed once (the value
\* of an assignment `x = v` that the following lines read), and a function
\* over 1..n written out as a tuple.
Bind(v, F(_)) == CHOOSE r \in {F(x) : x \in {v}} : TRUE
Bind2(v, w, F(_, _)) == CHOOSE r \in {F(x, y) : x \in {v}, y \in {w}} : TRUE
Tuple(f) == f \o << >>

\* An r x c array filled with v (np.zeros for v = 0).
Full(r, c, v) == [i \in 1..r |-> [j \in 1..c |-> v]]

\* M.T
Transpose(M0) ==
    Bind(M0, LAMBDA M :
        IF IsErr(M) THEN Err
        ELSE Tuple([j \in 1..Cols(M) |-> Tuple([i \in 1..Rows(M) |-> M[i][j]])]))

RECURSIVE DotSum(_, _, _, _)
\* sum over l <= k of row[l] * B[l][j], accumulated left to right.
DotSum(row, B, j, k) ==
    IF k = 0 THEN 0 ELSE FAdd(DotSum(row, B, j, k - 1), FMul(row[k], B[k][j]))

\* A.dot(B) for 2-D arrays: "shapes not aligned" unless cols(A) = rows(B).
Dot(A0, B0) ==
    Bind2(A0, B0, LAMBDA A, B :
        IF IsErr(A) \/ IsErr(B) THEN Err
        ELSE IF Cols(A) # Rows(B) THEN Err
        ELSE Tuple([i \in 1..Rows(A) |->
                Tuple([j \in 1..Cols(B) |-> DotSum(A[i], B, j, Cols(A))])]))

\* numpy's broadcasting rule for one axis, and the resulting extent.
AxisOK(m, n) == m = n \/ m = 1 \/ n = 1
AxisLen(m, n) == IF m = 1 THEN n ELSE m
\* The entry of M that position (i, j) of the broadcast result reads.
At(M, i, j) == M[IF Rows(M) = 1 THEN 1 ELSE i][IF Cols(M) = 1 THEN 1 ELSE j]

\* The scalar operation behind each elementwise operator.
Apply2(op, a, b) ==
    CASE op = "+" -> FAdd(a, b)
      [] op = "-" -> FSub(a, b)
      [] op = "*" -> FMul(a, b)
      [] op = "/" -> FDiv(a, b)

\* An elementwise binary operation with broadcasting.
Elementwise(op, A0, B0) ==
    Bind2(A0, B0, LAMBDA A, B :
        IF IsErr(A) \/ IsErr(B) THEN Err
        ELSE IF ~(AxisOK(Rows(A), Rows(B)) /\ AxisOK(Cols(A), Cols(B))) THEN Err
        ELSE Tuple([i \in 1..AxisLen(Rows(A), Rows(B)) |->
                Tuple([j \in 1..AxisLen(Cols(A), Cols(B)) |->
                    Apply2(op, At(A, i, j), At(B, i, j))])]))

Add(A, B) == Elementwise("+", A, B)
Sub(A, B) == Elementwise("-", A, B)
Mul(A, B) == Elementwise("*", A, B)

\* scalar * array and array / scalar: the scalar broadcasts like a 1 x 1 array.
ScalarMul(c, M) == Elementwise("*", <<<<c>>>>, M)
ScalarDiv(M, c) == Elementwise("/", M, <<<<c>>>>)

\* The scalar function behind each elementwise unary operation:
\* np.exp(z), np.maximum(z, 0), and z > 0 (a boolean, which multiplies as
\* 1.0 or 0.0).
Apply1(op, z) ==
    CASE op = "exp" -> FExp(z)
      [] op = "maximum0" -> FMaximum(z, 0)
      [] op = "gt0" -> IF FGt(z, 0) THEN Lit(1) ELSE 0

\* An elementwise unary operation.
Map(op, M0) ==
    Bind(M0, LAMBDA M :
        IF IsErr(M) THEN Err
        ELSE Tuple([i \in 1..Rows(M) |->
                Tuple([j \in 1..Cols(M) |-> Apply1(op, M[i][j])])]))

RECURSIVE SeqSum(_, _)
\* The sum of the first k entries of a sequence.
SeqSum(s, k) == IF k = 0 THEN 0 ELSE FAdd(SeqSum(s, k - 1), s[k])

\* np.sum(M): every entry, row after row.
SumAll(M0) ==
    Bind(M0, LAMBDA M :
        Bind(Tuple([i \in 1..Rows(M) |-> SeqSum(M[i], Cols(M))]),
             LAMBDA rowSums : SeqSum(rowSums, Rows(M))))

\* np.sum(M, axis=1, keepdims=True): a column of row sums.
SumAxis1(M0) ==
    Bind(M0, LAMBDA M :
        IF IsErr(M) THEN Err
        ELSE Tuple([i \in 1..Rows(M) |-> <<SeqSum(M[i], Cols(M))>>]))

RECURSIVE ArgMaxLast(_, _, _, _)
\* Variant: the scan keeps the last of several equal maxima (>= for >).
ArgMaxLast(M, j, i, best) ==
    IF i > Rows(M) THEN best
    ELSE IF IsNaN(M[best][j]) THEN best
    ELSE IF IsNaN(M[i][j]) \/ FGe(M[i][j], M[best][j])
         THEN ArgMaxLast(M, j, i + 1, i)
    ELSE ArgMaxLast(M, j, i + 1, best)

RECURSIVE ArgMaxFrom(_, _, _, _)
\* The scan of np.argmax down column j: a later entry replaces the best so
\* far only when it is greater, or is the first nan.
ArgMaxFrom(M, j, i, best) ==
    IF i > Rows(M) THEN best
    ELSE IF IsNaN(M[best][j]) THEN best
    ELSE IF IsNaN(M[i][j]) \/ FGt(M[i][j], M[best][j])
         THEN ArgMaxFrom(M, j, i + 1, i)
    ELSE ArgMaxFrom(M, j, i + 1, best)

\* np.argmax(M, 0): for each column the 0-based row index of its maximum.
ArgMax0(M0) ==
    Bind(M0, LAMBDA M :
        IF IsErr(M) THEN Err
        ELSE Tuple([j \in 1..Cols(M) |-> ArgMaxFrom(M, j, 1, 1) - 1]))

\* ----------------------------------------------------------------- network
ReLU(Z) == Map("maximum0", Z)

softmax(Z0) ==
    Bind(Z0, LAMBDA Z :
        IF IsErr(Z) THEN Err
        ELSE Bind(Map("exp", Z), LAMBDA E : ScalarDiv(E, SumAll(E))))

forward_prop(w1, bb1, w2, bb2, X) ==
    Bind(Add(Dot(w1, X), bb1), LAMBDA Z1 :
    Bind(ReLU(Z1), LAMBDA A1 :
    Bind(Add(Dot(w2, A1), bb2), LAMBDA Z2 :
    Bind(softmax(Z2), LAMBDA A2 :
        [Z1 |-> Z1, A1 |-> A1, Z2 |-> Z2, A2 |-> A2]))))

get_predictions(A2) == ArgMax0(A2)

ReLU_deriv(Z) == Map("gt0", Z)

\* The row that index k of a length-NumClasses axis selects (negative
\* indices count from the end), or 0 when k is out of bounds.
RowOfIndex(k) ==
    IF k >= 0 /\ k < NumClasses THEN k + 1
    ELSE IF k < 0 /\ k >= -NumClasses THEN k + NumClasses + 1
    ELSE 0

\* Y is the 1-D integer array np.array([label]); one_hot_Y[Y] = 1 sets the
\* rows Y selects and raises IndexError when an index is out of bounds.
one_hot(Y) ==
    IF \E k \in 1..Len(Y) : RowOfIndex(Y[k]) = 0 THEN Err
    ELSE Tuple([i \in 1..NumClasses |->
            <<IF \E k \in 1..Len(Y) : RowOfIndex(Y[k]) = i THEN Lit(1) ELSE 0>>])

backward_prop(Z1, A1, Z2, A2, w1, w2, X, Y) ==
    Bind(FDiv(Lit(1), Lit(Cols(X))), LAMBDA inv_m :
    Bind(one_hot(Y), LAMBDA one_hot_Y :
    Bind(Sub(A2, one_hot_Y), LAMBDA dZ2 :
    Bind(ScalarMul(inv_m, Dot(dZ2, Transpose(A1))), LAMBDA dW2 :
    Bind(ScalarMul(inv_m, SumAxis1(dZ2)), LAMBDA db2 :
    Bind(Mul(Dot(Transpose(w2), dZ2), ReLU_deriv(Z1)), LAMBDA dZ1 :
    Bind(ScalarMul(inv_m, Dot(dZ1, Transpose(X))), LAMBDA dW1 :
    Bind(ScalarMul(inv_m, SumAxis1(dZ1)), LAMBDA db1 :
        [dW1 |-> dW1, db1 |-> db1, dW2 |-> dW2, db2 |-> db2]))))))))

\* Variant: the step is added instead of subtracted.
update_params_ascent(w1, bb1, w2, bb2, dW1, db1, dW2, db2, alpha) ==
    [W1 |-> Add(w1, ScalarMul(alpha, dW1)),
     b1 |-> Add(bb1, ScalarMul(alpha, db1)),
     W2 |-> Add(w2, ScalarMul(alpha, dW2)),
     b2 |-> Add(bb2, ScalarMul(alpha, db2))]

\* Variant: b1 is stepped with dW1 (one letter off), which broadcasts.
update_params_bias_typo(w1, bb1, w2, bb2, dW1, db1, dW2, db2, alpha) ==
    [W1 |-> Sub(w1, ScalarMul(alpha, dW1)),
     b1 |-> Sub(bb1, ScalarMul(alpha, dW1)),
     W2 |-> Sub(w2, ScalarMul(alpha, dW2)),
     b2 |-> Sub(bb2, ScalarMul(alpha, db2))]

update_params(w1, bb1, w2, bb2, dW1, db1, dW2, db2, alpha) ==
    [W1 |-> Sub(w1, ScalarMul(alpha, dW1)),
     b1 |-> Sub(bb1, ScalarMul(alpha, db1)),
     W2 |-> Sub(w2, ScalarMul(alpha, dW2)),
     b2 |-> Sub(bb2, ScalarMul(alpha, db2))]

\* ---------------------------------------------------------------- requests
Globals(w1, bb1, w2, bb2) == [W1 |-> w1, b1 |-> bb1, W2 |-> w2, b2 |-> bb2]

\* The body of the JSON response, json.dumps of a one- or two-key dict.
Body(key, num, text, tb) == [key |-> key, num |-> num, text |-> text, traceback |-> tb]

JsonHeaders ==
    {<<"Content-Type", "application/json">>, <<"Access-Control-Allow-Origin", "*">>}

ok_response(body) ==
    [statusCode |-> 200, hasHeaders |-> TRUE, headers |-> JsonHeaders, body |-> body]

\* The 404 dict has no 'headers' key at all.
not_found_response ==
    [statusCode |-> 404, hasHeaders |-> FALSE, headers |-> {},
     body |-> Body("error", 0, "Not Found", FALSE)]

\* Variant: the failure dict built like the 404 dict, without headers.
error_response_bare(e) ==
    [statusCode |-> 500, hasHeaders |-> FALSE, headers |-> {},
     body |-> Body("error", 0, e, TRUE)]

error_response(e) ==
    [statusCode |-> 500, hasHeaders |-> TRUE, headers |-> JsonHeaders,
     body |-> Body("error", 0, e, TRUE)]

\* An exception e reaching the except clause: nothing has been assigned.
raised(e, G) == [response |-> error_response(e), globals |-> G]

\* np.array(body['image']).reshape(784, 1) / 255.0
image_data(body) ==
    IF Len(body.image) # ImageSize THEN Err
    ELSE Tuple([i \in 1..ImageSize |-> <<FDiv(Lit(body.image[i]), Lit(PixelMax))>>])

\* The learning rate passed at line 115.
LearningRate == FDiv(Lit(1), Lit(10))

predict_branch(G, body) ==
    IF ~body.parses THEN raised("JSONDecodeError", G)
    ELSE IF ~body.hasImage THEN raised("KeyError: 'image'", G)
    ELSE
      Bind(image_data(body), LAMBDA X :
        IF IsErr(X) THEN raised("ValueError: cannot reshape array", G)
        ELSE
      Bind(forward_prop(G.W1, G.b1, G.W2, G.b2, X), LAMBDA fp :
        IF IsErr(fp.A2) THEN raised("ValueError: shapes", G)
        ELSE
      Bind(get_predictions(fp.A2)[1], LAMBDA prediction :
        [response |-> ok_response(Body("prediction", prediction, "", FALSE)),
         globals |-> G])))

train_branch(G, body) ==
    IF ~body.parses THEN raised("JSONDecodeError", G)
    ELSE IF ~body.hasImage THEN raised("KeyError: 'image'", G)
    ELSE
      Bind(image_data(body), LAMBDA X :
        IF IsErr(X) THEN raised("ValueError: cannot reshape array", G)
        ELSE IF ~body.hasLabel THEN raised("KeyError: 'label'", G)
        ELSE
      Bind(forward_prop(G.W1, G.b1, G.W2, G.b2, X), LAMBDA fp :
        IF IsErr(fp.A2) THEN raised("ValueError: shapes", G)
        ELSE IF IsErr(one_hot(<<body.label>>)) THEN raised("IndexError", G)
        ELSE
      Bind(backward_prop(fp.Z1, fp.A1, fp.Z2, fp.A2, G.W1, G.W2, X, <<body.label>>),
           LAMBDA bp :
        IF \E t \in {bp.dW1, bp.db1, bp.dW2, bp.db2} : IsErr(t)
        THEN raised("ValueError: shapes", G)
        ELSE
      Bind(update_params(G.W1, G.b1, G.W2, G.b2,
                         bp.dW1, bp.db1, bp.dW2, bp.db2, LearningRate),
           LAMBDA up :
        IF \E t \in {up.W1, up.b1, up.W2, up.b2} : IsErr(t)
        THEN raised("ValueError: operands could not be broadcast", G)
        ELSE [response |->
                  ok_response(Body("status", 0, "Model trained on one sample", FALSE)),
              globals |-> up]))))

\* Variant: the predict route runs the train branch when a label is sent.
handler_swapped(G, ev) ==
    IF ev.path = "/api/predict" /\ ~ev.body.hasLabel THEN predict_branch(G, ev.body)
    ELSE IF ev.path \in {"/api/predict", "/api/train"} THEN train_branch(G, ev.body)
    ELSE [response |-> not_found_response, globals |-> G]

\* handler(event, context) run from start to return with the globals G.
handler(G, ev) ==
    IF ev.path = "/api/predict" THEN predict_branch(G, ev.body)
    ELSE IF ev.path = "/api/train" THEN train_branch(G, ev.body)
    ELSE [response |-> not_found_response, globals |-> G]

\* What MockHandler.do_POST puts on the socket for a handler response:
\* send_response only buffers the status line, and response['headers']
\* raises KeyError before end_headers flushes it.
do_POST_send(resp) ==
    IF resp.hasHeaders
    THEN [transport |-> "http", sent |-> TRUE, statusCode |-> resp.statusCode,
          headers |-> resp.headers, body |-> resp.body, exc |-> ""]
    ELSE [transport |-> "http", sent |-> FALSE, statusCode |-> 0,
          headers |-> {}, body |-> Body("", 0, "", FALSE), exc |-> "KeyError: 'headers'"]

\* The caller of handler(event, context) gets the returned dict itself.
direct_return(resp) ==
    [transport |-> "direct", sent |-> TRUE, statusCode |-> resp.statusCode,
     headers |-> resp.headers, body |-> resp.body, exc |-> ""]

\* ------------------------------------------------------------ input domains
Half == Scale \div 2
Column(vals) == [i \in 1..Len(vals) |-> <<vals[i]>>]

\* Contents the model file may have (all arrays 2-D).
NetPlain ==
    Globals(<<[j \in 1..ImageSize |-> Half], [j \in 1..ImageSize |-> -Half]>>,
            Full(2, 1, 0),
            [i \in 1..NumClasses |-> <<IF i = 4 THEN Lit(1) ELSE 0, IF i = 2 THEN Half ELSE 0>>],
            Column([i \in 1..NumClasses |-> IF i \in {3, 6} THEN Half ELSE 0]))
\* Output saturated on class 0: every other logit is far below.
NetSaturated ==
    Globals(Full(1, ImageSize, 0), Full(1, 1, 0), Full(NumClasses, 1, 0),
            Column([i \in 1..NumClasses |-> IF i = 1 THEN 0 ELSE Lit(-8)]))
\* Two logits large enough for np.exp to overflow.
NetOverflow ==
    Globals(Full(1, ImageSize, 0), Full(1, 1, 0), Full(NumClasses, 1, 0),
            Column([i \in 1..NumClasses |-> IF i \in {2, 5} THEN Lit(7) ELSE 0]))
\* W2 has one column too many for the hidden layer.
NetMisaligned ==
    Globals(Full(2, ImageSize, Half), Full(2, 1, 0), Full(NumClasses, 3, 0),
            Full(NumClasses, 1, 0))
\* b1 is 1 x 1 where the hidden layer has 2 units: it broadcasts.
NetScalarBias ==
    Globals(Full(2, ImageSize, Half), Full(1, 1, Half), Full(NumClasses, 2, Half),
            Full(NumClasses, 1, 0))

ModelFiles ==
    {[kind |-> k, content |-> Globals(Err, Err, Err, Err)] :
        k \in {"missing", "invalid_json", "no_W1_key"}}
    \cup {[kind |-> "ok", content |-> c] :
        c \in {NetPlain, NetSaturated, NetOverflow, NetMisaligned, NetScalarBias}}

Images ==
    {[j \in 1..ImageSize |-> 0], [j \in 1..ImageSize |-> PixelMax],
     [j \in 1..(ImageSize - 1) |-> 0]}
Labels == {-1, 0, 3, 10}
Paths == {"/api/predict", "/api/train", "/api/unknown"}

Unparsable ==
    [parses |-> FALSE, hasImage |-> FALSE, image |-> << >>, hasLabel |-> FALSE, label |-> 0]
RequestBodies ==
    {Unparsable}
    \cup {[parses |-> TRUE, hasImage |-> FALSE, image |-> << >>, hasLabel |-> FALSE, label |-> 0]}
    \cup {[parses |-> TRUE, hasImage |-> TRUE, image |-> img, hasLabel |-> FALSE, label |-> 0] :
            img \in Images}
    \cup {[parses |-> TRUE, hasImage |-> TRUE, image |-> img, hasLabel |-> TRUE, label |-> l] :
            img \in Images, l \in Labels}
Events == {[path |-> p, body |-> b] : p \in Paths, b \in RequestBodies}

\* ------------------------------------------------------------------ state
Unbound == Err
NoEvent == [path |-> "", body |-> Unparsable]
NoResponse ==
    [statusCode |-> 0, hasHeaders |-> FALSE, headers |-> {}, body |-> Body("", 0, "", FALSE)]
NoWire ==
    [transport |-> "none", sent |-> FALSE, statusCode |-> 0, headers |-> {},
     body |-> Body("", 0, "", FALSE), exc |-> ""]

\* The threads of a host that runs handler calls concurrently, and a thread
\* that has not entered handler: nothing read, nothing computed.
Threads == {1, 2}
NoArrays == Globals(Unbound, Unbound, Unbound, Unbound)
IdleThread(ev) ==
    [pc |-> "start", ev |-> ev, X |-> Err,
     r |-> NoArrays, fp |-> NoArrays, bp |-> NoArrays, up |-> NoArrays,
     resp |-> NoResponse, seen |-> NoArrays, overlap |-> FALSE]

Init ==
    /\ modelFile \in ModelFiles
    /\ phase = "importing"
    /\ stderr = << >>
    /\ W1 = Unbound /\ b1 = Unbound /\ W2 = Unbound /\ b2 = Unbound
    /\ event = NoEvent
    /\ via = "none"
    /\ inFlight = FALSE
    /\ response = NoResponse
    /\ wire = NoWire
    /\ pre = NoArrays
    /\ trains = 0
    /\ threads = [t \in Threads |-> IdleThread(NoEvent)]

\* Lines 13-27: the try block logs a load failure and falls through with
\* model_params unbound; line 24 then raises NameError (or KeyError for a
\* missing key), which ends the import.
LoadModel ==
    /\ phase = "importing"
    /\ stderr' = Append(stderr,
            CASE modelFile.kind = "missing" -> "Error: Model file not found"
              [] modelFile.kind = "invalid_json" -> "Error: Invalid JSON format"
              [] OTHER -> "Model parameters loaded successfully")
    /\ IF modelFile.kind = "ok"
       THEN /\ W1' = modelFile.content.W1
            /\ b1' = modelFile.content.b1
            /\ W2' = modelFile.content.W2
            /\ b2' = modelFile.content.b2
            /\ phase' = "serving"
       ELSE /\ UNCHANGED <<W1, b1, W2, b2>>
            /\ phase' = "crashed"
    /\ UNCHANGED <<modelFile, event, via, inFlight, response, wire, pre, trains, threads>>

\* A client sends a request; requests are taken one at a time (spec
\* section 5), so none arrives while one is in flight.
Arrive(ev, how) ==
    /\ phase = "serving"
    /\ ~inFlight
    /\ ev.path = "/api/train" => trains < MaxTrains
    /\ event' = ev
    /\ via' = how
    /\ inFlight' = TRUE
    /\ response' = NoResponse
    /\ wire' = NoWire
    /\ pre' = NoArrays
    /\ UNCHANGED <<modelFile, phase, stderr, W1, b1, W2, b2, trains, threads>>

\* What the caller of handler does with the returned dict.
Deliver(how, resp) == IF how = "http" THEN do_POST_send(resp) ELSE direct_return(resp)

\* handler entered with the request in flight and run to its return.
Serve(how) ==
    /\ inFlight
    /\ \E r \in {handler(Globals(W1, b1, W2, b2), event)} :
           /\ pre' = Globals(W1, b1, W2, b2)
           /\ response' = r.response
           /\ wire' = Deliver(how, r.response)
           /\ W1' = r.globals.W1
           /\ b1' = r.globals.b1
           /\ W2' = r.globals.W2
           /\ b2' = r.globals.b2
           /\ trains' = IF event.path = "/api/train" /\ r.response.statusCode = 200
                        THEN trains + 1 ELSE trains
    /\ inFlight' = FALSE
    /\ UNCHANGED <<modelFile, phase, stderr, event, via, threads>>

\* handler called by the hosting platform.
Invoke ==
    /\ via = "direct"
    /\ Serve("direct")

\* MockHandler.do_POST: builds the event, calls handler, writes the response.
do_POST ==
    /\ via = "http"
    /\ Serve("http")

Next ==
    \/ LoadModel
    \/ \E ev \in Events, how \in {"direct", "http"} : Arrive(ev, how)
    \/ Invoke
    \/ do_POST

Spec == Init /\ [][Next]_vars


\* ------------------------------------------------ concurrent handler calls
\* Two handler calls in one process, interleaved at the points where the
\* interpreter may switch threads: between the separate reads of the
\* globals W1, b1, W2, b2 that build an argument list (lines 93, 113, 114,
\* 115) and between the four stores of the tuple assignment at line 115.
\* Everything else a call does is local to it.

\* The value a read of the global `name` yields now.
global_value_typo(name) ==
    CASE name = "W1" -> W1 [] name = "b1" -> b2 [] name = "W2" -> W2 [] name = "b2" -> b2
global_value(name) ==
    CASE name = "W1" -> W1 [] name = "b1" -> b1 [] name = "W2" -> W2 [] name = "b2" -> b2

\* The global read at each position, and the position that follows.
LoadName ==
    [p93_W1 |-> "W1", p93_b1 |-> "b1", p93_W2 |-> "W2", p93_b2 |-> "b2",
     t113_W1 |-> "W1", t113_b1 |-> "b1", t113_W2 |-> "W2", t113_b2 |-> "b2",
     t114_W1 |-> "W1", t114_W2 |-> "W2",
     t115_W1 |-> "W1", t115_b1 |-> "b1", t115_W2 |-> "W2", t115_b2 |-> "b2"]
AfterLoad ==
    [p93_W1 |-> "p93_b1", p93_b1 |-> "p93_W2", p93_W2 |-> "p93_b2", p93_b2 |-> "p93_call",
     t113_W1 |-> "t113_b1", t113_b1 |-> "t113_W2", t113_W2 |-> "t113_b2",
     t113_b2 |-> "t113_call",
     t114_W1 |-> "t114_W2", t114_W2 |-> "t114_call",
     t115_W1 |-> "t115_b1", t115_b1 |-> "t115_W2", t115_W2 |-> "t115_b2",
     t115_b2 |-> "t115_call"]
StoreName ==
    [t115_store_W1 |-> "W1", t115_store_b1 |-> "b1", t115_store_W2 |-> "W2",
     t115_store_b2 |-> "b2"]
AfterStore ==
    [t115_store_W1 |-> "t115_store_b1", t115_store_b1 |-> "t115_store_W2",
     t115_store_W2 |-> "t115_store_b2", t115_store_b2 |-> "t117"]

\* A call is under way from its first step to its return.
Active(t) == threads[t].pc \notin {"start", "done"}
\* Thread t takes a step that leaves it as record `me`: it and every call
\* under way at that moment are marked as having overlapped.
Step(t, me) ==
    threads' = [u \in Threads |->
        IF u = t THEN [me EXCEPT !.overlap = @ \/ \E v \in Threads \ {t} : Active(v)]
        ELSE [threads[u] EXCEPT !.overlap = @ \/ Active(u)]]
\* The except clause: the call returns the 500 dict.
Raise(me, e) == [me EXCEPT !.pc = "done", !.resp = error_response(e)]

SeqVarsUnchanged ==
    UNCHANGED <<modelFile, phase, stderr, event, via, inFlight, response, wire, pre, trains>>

\* Lines 82-91 / 106-109: route on the path, parse the body, build the
\* image column and the label.
Enter(t) ==
    /\ threads[t].pc = "start"
    /\ \E me \in {[threads[t] EXCEPT !.seen = Globals(W1, b1, W2, b2)]} :
       \E body \in {threads[t].ev.body} :
         Step(t,
           IF me.ev.path \notin {"/api/predict", "/api/train"}
           THEN [me EXCEPT !.pc = "done", !.resp = not_found_response]
           ELSE IF ~body.parses THEN Raise(me, "JSONDecodeError")
           ELSE IF ~body.hasImage THEN Raise(me, "KeyError: 'image'")
           ELSE IF IsErr(image_data(body)) THEN Raise(me, "ValueError: cannot reshape array")
           ELSE IF me.ev.path = "/api/train" /\ ~body.hasLabel
                THEN Raise(me, "KeyError: 'label'")
           ELSE [me EXCEPT !.X = image_data(body),
                           !.pc = IF me.ev.path = "/api/predict"
                                  THEN "p93_W1" ELSE "t113_W1"])
    /\ UNCHANGED <<W1, b1, W2, b2>>
    /\ SeqVarsUnchanged

\* One global read while an argument list is built.
LoadGlobal(t) ==
    /\ threads[t].pc \in DOMAIN LoadName
    /\ \E name \in {LoadName[threads[t].pc]} :
         Step(t, [threads[t] EXCEPT
                    !.r = [@ EXCEPT ![name] = global_value(name)],
                    !.pc = AfterLoad[threads[t].pc]])
    /\ UNCHANGED <<W1, b1, W2, b2>>
    /\ SeqVarsUnchanged

\* Lines 93-104 and 113: forward_prop on the values read; predict returns.
CallForward(t) ==
    /\ threads[t].pc \in {"p93_call", "t113_call"}
    /\ \E me \in {threads[t]} :
       \E f \in {forward_prop(me.r.W1, me.r.b1, me.r.W2, me.r.b2, me.X)} :
         Step(t,
           IF IsErr(f.A2) THEN Raise(me, "ValueError: shapes")
           ELSE IF me.pc = "p93_call"
           THEN [me EXCEPT !.pc = "done",
                    !.resp = ok_response(
                        Body("prediction", get_predictions(f.A2)[1], "", FALSE))]
           ELSE [me EXCEPT !.pc = "t114_W1",
                    !.fp = Globals(f.Z1, f.A1, f.Z2, f.A2), !.r = NoArrays])
    /\ UNCHANGED <<W1, b1, W2, b2>>
    /\ SeqVarsUnchanged

\* Line 114: backward_prop on the activations and the W1, W2 read for it.
CallBackward(t) ==
    /\ threads[t].pc = "t114_call"
    /\ \E me \in {threads[t]} :
       \E g \in {backward_prop(me.fp.W1, me.fp.b1, me.fp.W2, me.fp.b2,
                               me.r.W1, me.r.W2, me.X, <<me.ev.body.label>>)} :
         Step(t,
           IF \E a \in {g.dW1, g.db1, g.dW2, g.db2} : IsErr(a)
           THEN Raise(me, "IndexError")
           ELSE [me EXCEPT !.pc = "t115_W1",
                    !.bp = Globals(g.dW1, g.db1, g.dW2, g.db2),
                    !.fp = NoArrays, !.r = NoArrays])
    /\ UNCHANGED <<W1, b1, W2, b2>>
    /\ SeqVarsUnchanged

\* Line 115, right-hand side: update_params on the values read for it.
CallUpdate(t) ==
    /\ threads[t].pc = "t115_call"
    /\ \E me \in {threads[t]} :
       \E u \in {update_params(me.r.W1, me.r.b1, me.r.W2, me.r.b2,
                               me.bp.W1, me.bp.b1, me.bp.W2, me.bp.b2, LearningRate)} :
         Step(t,
           IF \E a \in {u.W1, u.b1, u.W2, u.b2} : IsErr(a)
           THEN Raise(me, "ValueError: operands could not be broadcast")
           ELSE [me EXCEPT !.pc = "t115_store_W1", !.up = u,
                    !.bp = NoArrays, !.r = NoArrays])
    /\ UNCHANGED <<W1, b1, W2, b2>>
    /\ SeqVarsUnchanged

\* Variant: the assignment has three targets and b2 is never stored.
StoreGlobalNoB2(t) ==
    /\ threads[t].pc \in DOMAIN StoreName
    /\ \E name \in {StoreName[threads[t].pc]} :
         /\ W1' = IF name = "W1" THEN threads[t].up.W1 ELSE W1
         /\ b1' = IF name = "b1" THEN threads[t].up.b1 ELSE b1
         /\ W2' = IF name = "W2" THEN threads[t].up.W2 ELSE W2
         /\ b2' = b2
    /\ Step(t, [threads[t] EXCEPT !.pc = AfterStore[threads[t].pc]])
    /\ SeqVarsUnchanged

\* Line 115, left-hand side: one of the four stores W1, b1, W2, b2.
StoreGlobal(t) ==
    /\ threads[t].pc \in DOMAIN StoreName
    /\ \E name \in {StoreName[threads[t].pc]} :
         /\ W1' = IF name = "W1" THEN threads[t].up.W1 ELSE W1
         /\ b1' = IF name = "b1" THEN threads[t].up.b1 ELSE b1
         /\ W2' = IF name = "W2" THEN threads[t].up.W2 ELSE W2
         /\ b2' = IF name = "b2" THEN threads[t].up.b2 ELSE b2
    /\ Step(t, [threads[t] EXCEPT !.pc = AfterStore[threads[t].pc]])
    /\ SeqVarsUnchanged

\* Lines 117-125: the train call returns its 200 dict.
Respond(t) ==
    /\ threads[t].pc = "t117"
    /\ Step(t, [threads[t] EXCEPT !.pc = "done",
            !.resp = ok_response(Body("status", 0, "Model trained on one sample", FALSE))])
    /\ UNCHANGED <<W1, b1, W2, b2>>
    /\ SeqVarsUnchanged

\* The requests the two threads serve.
FullImage == [j \in 1..ImageSize |-> PixelMax]
BlankImage == [j \in 1..ImageSize |-> 0]
Request(path, img, hasLabel, label) ==
    [path |-> path,
     body |-> [parses |-> TRUE, hasImage |-> TRUE, image |-> img,
               hasLabel |-> hasLabel, label |-> label]]
ConcEvents ==
    {Request("/api/predict", FullImage, FALSE, 0),
     Request("/api/train", FullImage, TRUE, 3),
     Request("/api/train", BlankImage, TRUE, 0),
     Request("/api/train", FullImage, TRUE, 10),
     Request("/api/unknown", BlankImage, FALSE, 0)}

\* The module has been imported with a usable model file, and each thread
\* is about to enter handler with a request.
InitConc ==
    /\ modelFile \in {[kind |-> "ok", content |-> c] : c \in {NetPlain, NetSaturated}}
    /\ phase = "serving"
    /\ stderr = <<"Model parameters loaded successfully">>
    /\ W1 = modelFile.content.W1 /\ b1 = modelFile.content.b1
    /\ W2 = modelFile.content.W2 /\ b2 = modelFile.content.b2
    /\ event = NoEvent
    /\ via = "none"
    /\ inFlight = FALSE
    /\ response = NoResponse
    /\ wire = NoWire
    /\ pre = NoArrays
    /\ trains = 0
    /\ threads \in [Threads -> {IdleThread(ev) : ev \in ConcEvents}]

NextConc ==
    \E t \in Threads :
        \/ Enter(t)
        \/ LoadGlobal(t)
        \/ CallForward(t)
        \/ CallBackward(t)
        \/ CallUpdate(t)
        \/ StoreGlobal(t)
        \/ Respond(t)

SpecConc == InitConc /\ [][NextConc]_vars

\* ================================================================== claims
Now == Globals(W1, b1, W2, b2)
\* A request has been served and its outcome is on display.
Served == phase = "serving" /\ ~inFlight /\ via # "none"
ValidImage(body) == body.parses /\ body.hasImage /\ Len(body.image) = ImageSize
\* W1 hidden x ImageSize, b1 hidden x 1, W2 NumClasses x hidden, b2 NumClasses x 1.
Consistent(G) ==
    /\ ~IsErr(G.W1) /\ ~IsErr(G.b1) /\ ~IsErr(G.W2) /\ ~IsErr(G.b2)
    /\ Cols(G.W1) = ImageSize
    /\ Shape(G.b1) = <<Rows(G.W1), 1>>
    /\ Shape(G.W2) = <<NumClasses, Rows(G.W1)>>
    /\ Shape(G.b2) = <<NumClasses, 1>>
Shapes(G) == <<Shape(G.W1), Shape(G.b1), Shape(G.W2), Shape(G.b2)>>
\* The forward pass of the last request, from the globals it started with.
PreForward == forward_prop(pre.W1, pre.b1, pre.W2, pre.b2, image_data(event.body))

\* C1: a step that changes any of W1, b1, W2, b2 while the process serves
\* requests is the serving of a /api/train request; a predict request or a
\* request to any other path, whatever its body, leaves all four as they were.
C1_OnlyTrainWrites ==
    [][(phase = "serving" /\ Now' # Now) => (inFlight /\ event.path = "/api/train")]_vars

\* C1 witness: a predict request answered 200 after the parameters had
\* already been trained, with the four globals as it found them.
C1_Witness ==
    /\ Served /\ event.path = "/api/predict" /\ response.statusCode = 200
    /\ trains > 0 /\ Now = pre

\* C2 as stated (with the data model's dimension-consistent parameters): a
\* train request with a full-length image and a label in 0..9 returns 200
\* with the status body and leaves parameters that differ from the old ones.
C2_Original ==
    (/\ Served /\ event.path = "/api/train" /\ ValidImage(event.body)
     /\ event.body.hasLabel /\ event.body.label \in 0..9 /\ Consistent(pre))
    => /\ response.statusCode = 200
       /\ response.body.key = "status"
       /\ response.body.text = "Model trained on one sample"
       /\ Now # pre

\* The gradient step of sections 4.3 and 4.4 written out entry by entry for
\* one sample (m = 1), from a forward pass f, the image column X, the old
\* parameters G and the label y.
StepDZ2(f, y, i) == FSub(f.A2[i][1], IF i = y + 1 THEN Lit(1) ELSE 0)
StepDZ1(f, G, y, k) ==
    FMul(SeqSum(Tuple([i \in 1..NumClasses |-> FMul(G.W2[i][k], StepDZ2(f, y, i))]),
                NumClasses),
         IF FGt(f.Z1[k][1], 0) THEN Lit(1) ELSE 0)
StepResult(f, X, G, y) ==
    [W1 |-> [k \in 1..Rows(G.W1) |-> [j \in 1..ImageSize |->
                FSub(G.W1[k][j], FMul(LearningRate, FMul(StepDZ1(f, G, y, k), X[j][1])))]],
     b1 |-> [k \in 1..Rows(G.W1) |->
                <<FSub(G.b1[k][1], FMul(LearningRate, StepDZ1(f, G, y, k)))>>],
     W2 |-> [i \in 1..NumClasses |-> [k \in 1..Rows(G.W1) |->
                FSub(G.W2[i][k], FMul(LearningRate, FMul(StepDZ2(f, y, i), f.A1[k][1])))]],
     b2 |-> [i \in 1..NumClasses |->
                <<FSub(G.b2[i][1], FMul(LearningRate, StepDZ2(f, y, i)))>>]]

\* C2 (amended): a train request with a full-length image and a label in
\* 0..9, on dimension-consistent parameters, returns 200 with the status
\* body, and the four globals are replaced by param - 0.1 * grad computed
\* from the values they had when the request arrived.
C2_TrainStep ==
    (/\ Served /\ event.path = "/api/train" /\ ValidImage(event.body)
     /\ event.body.hasLabel /\ event.body.label \in 0..9 /\ Consistent(pre))
    => /\ response.statusCode = 200
       /\ response.headers = JsonHeaders
       /\ response.body.key = "status"
       /\ response.body.text = "Model trained on one sample"
       /\ Now = StepResult(PreForward, image_data(event.body), pre, event.body.label)

\* C2 witness: such a request after which each of the four arrays differs
\* from its old value.
C2_Witness ==
    /\ Served /\ event.path = "/api/train" /\ ValidImage(event.body)
    /\ event.body.hasLabel /\ event.body.label \in 0..9 /\ Consistent(pre)
    /\ response.statusCode = 200
    /\ W1 # pre.W1 /\ b1 # pre.b1 /\ W2 # pre.W2 /\ b2 # pre.b2

\* C3 as stated: a POST through MockHandler.do_POST to a path other than
\* /api/predict and /api/train puts a 404 response with an error body on
\* the wire.
C3_NotFoundIsSent ==
    (Served /\ via = "http" /\ event.path \notin {"/api/predict", "/api/train"})
    => (wire.sent /\ wire.statusCode = 404 /\ wire.body.key = "error")

\* The conditions under which the pipeline of a predict or train request
\* raises: body not parsable, no image, no label (train), image of the
\* wrong length, label index out of bounds (train), arrays not aligned.
ShapeMismatch(G) ==
    \/ Cols(G.W1) # ImageSize
    \/ Cols(G.W2) # AxisLen(Rows(G.W1), Rows(G.b1))
PipelineRaises(ev, G) ==
    /\ ev.path \in {"/api/predict", "/api/train"}
    /\ \/ ~ev.body.parses
       \/ ~ev.body.hasImage
       \/ Len(ev.body.image) # ImageSize
       \/ ev.path = "/api/train" /\ ~ev.body.hasLabel
       \/ ev.path = "/api/train" /\ ev.body.label \notin (-NumClasses)..(NumClasses - 1)
       \/ ShapeMismatch(G)

\* C4: a predict or train request whose pipeline raises ends in one 500
\* outcome with an error description, the JSON content type and the
\* cross-origin header, and the four globals are what they were; over HTTP
\* that one response is what the client receives.
C4_FailureOutcome ==
    (Served /\ PipelineRaises(event, pre))
    => /\ response.statusCode = 500
       /\ response.body.key = "error" /\ response.body.text # ""
       /\ response.hasHeaders /\ response.headers = JsonHeaders
       /\ Now = pre
       /\ via = "http" => (wire.sent /\ wire.statusCode = 500 /\ wire.headers = JsonHeaders)

\* C4 witness: a train request without a label, after an earlier train
\* request succeeded, answered 500 over HTTP.
C4_Witness ==
    /\ Served /\ via = "http" /\ event.path = "/api/train"
    /\ ValidImage(event.body) /\ ~event.body.hasLabel
    /\ trains > 0 /\ response.statusCode = 500

\* C5 as stated: with the model file missing or malformed the error is
\* logged and the import still completes, leaving a process that serves.
C5_StartupSurvives ==
    (modelFile.kind \in {"missing", "invalid_json"} /\ phase # "importing")
    => (Len(stderr) = 1 /\ phase = "serving")

\* The output column A2 of the last request's forward pass, as a sequence.
PreA2 == LET f == PreForward IN Tuple([i \in 1..Rows(f.A2) |-> f.A2[i][1]])
HasNaN(a) == \E i \in 1..Len(a) : IsNaN(a[i])
\* Entry p + 1 of a is a maximum of a and every earlier entry is below it.
FirstMaximum(a, p) ==
    /\ \A i \in 1..Len(a) : FGe(a[p + 1], a[i])
    /\ \A i \in 1..p : FGt(a[p + 1], a[i])
\* Entry p + 1 of a is nan and no earlier entry is.
FirstNaN(a, p) == IsNaN(a[p + 1]) /\ \A i \in 1..p : ~IsNaN(a[i])
PredictServed ==
    /\ Served /\ event.path = "/api/predict" /\ ValidImage(event.body)
    /\ Consistent(pre)

\* C6 as stated: the prediction is an index in 0..9 of an entry of A2 that
\* no entry exceeds and that every earlier entry is strictly below.
C6_Original ==
    PredictServed
    => /\ response.statusCode = 200
       /\ response.body.key = "prediction"
       /\ response.body.num \in 0..(NumClasses - 1)
       /\ LET a == PreA2 IN FirstMaximum(a, response.body.num)

\* C6 (amended): the response is 200 with a prediction in 0..9; when A2 holds
\* no nan it is the lowest index of a maximum entry, and when np.exp has
\* overflowed and A2 holds nan it is the lowest index of a nan entry.
C6_ArgMax ==
    PredictServed
    => /\ response.statusCode = 200
       /\ response.headers = JsonHeaders
       /\ response.body.key = "prediction"
       /\ response.body.num \in 0..(NumClasses - 1)
       /\ LET a == PreA2
          IN  IF HasNaN(a) THEN FirstNaN(a, response.body.num)
              ELSE FirstMaximum(a, response.body.num)

\* C6 witness: a prediction whose maximum is attained again at a higher
\* index, and not at index 0.
C6_Witness ==
    /\ PredictServed /\ response.body.num > 0
    /\ LET a == PreA2
       IN  /\ ~HasNaN(a)
           /\ \E i \in (response.body.num + 2)..Len(a) : a[i] = a[response.body.num + 1]

\* C9: when the model file holds dimension-consistent arrays, the shapes of
\* W1, b1, W2 and b2 are those of the file after any sequence of requests,
\* and the gradients of every successful train request have the shapes of
\* the parameters they step.
C9_ShapesPreserved ==
    (phase = "serving" /\ Consistent(modelFile.content))
    => /\ Shapes(Now) = Shapes(modelFile.content)
       /\ Consistent(Now)
       /\ (Served /\ event.path = "/api/train" /\ response.statusCode = 200) =>
            LET f == PreForward
                g == backward_prop(f.Z1, f.A1, f.Z2, f.A2, pre.W1, pre.W2,
                                   image_data(event.body), <<event.body.label>>)
            IN  <<Shape(g.dW1), Shape(g.db1), Shape(g.dW2), Shape(g.db2)>> = Shapes(pre)

\* C9 witness: consistent parameters that two train requests have changed.
C9_Witness ==
    /\ Served /\ Consistent(modelFile.content) /\ trains >= 2
    /\ event.path = "/api/train" /\ response.statusCode = 200
    /\ W1 # modelFile.content.W1 /\ b1 # modelFile.content.b1

\* C10 as stated: a train request whose label lies outside 0..9 ends in a
\* failure outcome and leaves the four globals as they were.
C10_OutOfRangeRejected ==
    (/\ Served /\ event.path = "/api/train" /\ event.body.hasLabel
     /\ event.body.label \notin 0..(NumClasses - 1))
    => (response.statusCode # 200 /\ Now = pre)

\* ------------------------------------------------- claims on concurrency
Done(t) == threads[t].pc = "done"
IsPredict(t) == threads[t].ev.path = "/api/predict"
IsTrain(t) == threads[t].ev.path = "/api/train"
\* The globals InitConc starts from.
Loaded == modelFile.content
\* The globals after ev1 and then ev2 are served one after the other.
OneAfterTheOther(ev1, ev2) == handler(handler(Loaded, ev1).globals, ev2).globals

\* C7: a predict call that ran with no other call under way (request at a
\* time) read its four arrays from one parameter set, the globals as they
\* were when it entered, and answered as handler does on that set; only a
\* predict that overlapped another call can have read a mixed set.
C7_SerialPredictReadsOneSet ==
    \A t \in Threads :
        (Done(t) /\ IsPredict(t) /\ ~threads[t].overlap)
        => /\ threads[t].r = threads[t].seen
           /\ threads[t].resp = handler(threads[t].seen, threads[t].ev).response

\* C7 witness: a predict call that read W1 before a concurrent train call
\* stored it and b2 after, so that what it computed with is neither the
\* set before the train call nor the set after it.
C7_Witness ==
    \E t \in Threads, u \in Threads :
        /\ Done(t) /\ IsPredict(t) /\ threads[t].resp.statusCode = 200
        /\ Done(u) /\ IsTrain(u) /\ threads[u].resp.statusCode = 200
        /\ threads[t].r.W1 = Loaded.W1 /\ threads[t].r.b2 = threads[u].up.b2
        /\ Loaded.W1 # threads[u].up.W1 /\ Loaded.b2 # threads[u].up.b2
        /\ threads[t].r # Loaded /\ threads[t].r # threads[u].up

\* C8: when two train calls both return without having overlapped, the
\* globals are the result of the two updates applied one after the other in
\* one of the two orders; any other final state needs an overlap.
C8_SerialTrainsCompose ==
    (/\ \A t \in Threads : Done(t) /\ IsTrain(t) /\ ~threads[t].overlap)
    => Now \in {OneAfterTheOther(threads[1].ev, threads[2].ev),
                OneAfterTheOther(threads[2].ev, threads[1].ev)}

\* C8 witness: two train calls have returned 200 and the globals are those
\* of one update alone applied to the starting set (the other update is
\* lost), which neither order of the two updates produces.
C8_Witness ==
    /\ \A t \in Threads : Done(t) /\ IsTrain(t) /\ threads[t].resp.statusCode = 200
    /\ Now \notin {OneAfterTheOther(threads[1].ev, threads[2].ev),
                   OneAfterTheOther(threads[2].ev, threads[1].ev)}
    /\ Now \in {handler(Loaded, threads[t].ev).globals : t \in Threads}

=============================================================================
